---- MODULE Spec2Model ----
(***************************************************************************)
(* Model of src/app.py: the start-button handler of the multi-factor stock *)
(* recommender, from the API-key check through the weight extraction, the  *)
(* universe listing, the per-ticker scoring loop and the final ranking.    *)
(*                                                                         *)
(* Units.  Percentages and scores carry one decimal in the code (every one *)
(* of them passes through round(x, 1)); the model holds them as integers   *)
(* in TENTHS: 33.3 is 333, 15.0 is 150, an upside of 30.0 % is 300.        *)
(* Prices are the integers the code parses.                                *)
(*                                                                         *)
(* One behaviour is one run of the handler in a fresh process, so the      *)
(* st.cache_data store of fetch_universe is empty when it is called; the   *)
(* per-ticker store of get_naver_finance_prices is modelled (quoteCache)   *)
(* because one run can look the same ticker up more than once.             *)
(***************************************************************************)
EXTENDS Integers, Sequences, FiniteSets, TLC

(***************************************************************************)
(* Bounds of the model.  The slider of the code offers limits 10..100 and  *)
(* a listing page holds 50 rows; the model scales both down.               *)
(***************************************************************************)
MinLimit == 2
MaxLimit == 3
MaxRowsPerPage == 2
MaxEtfItems == 3
UpsideSpan == 20

(* Program constants. *)
MaxPage == 5
BonusMax == 15
UpsideAtMax == 30

Limits == MinLimit..MaxLimit
Markets == {"ALL", "KOSPI", "KOSDAQ", "ETF"}
Keys == {"Momentum", "Value", "Quality"}

Min2(a, b) == IF a <= b THEN a ELSE b

(* round(n / d, 0) for n >= 0, d > 0.  For every quotient the model forms   *)
(* the double the code rounds lies on the same side of the tie as n / d.   *)
RoundDiv(n, d) == (2 * n + d) \div (2 * d)

Take(s, n) == SubSeq(s, 1, Min2(n, Len(s)))

(***************************************************************************)
(* mock_factor_score: 40 + md5(ticker + "_" + seed) mod 61.  The table     *)
(* holds the values of that expression for the tickers of the model.       *)
(***************************************************************************)
Tickers == {"000270", "055550", "247540", "069500", "305720"}

Md5Mod61 ==
  ( "000270" :> [mom |-> 38, val |-> 52, qual |-> 22] ) @@
  ( "055550" :> [mom |-> 37, val |-> 11, qual |-> 39] ) @@
  ( "247540" :> [mom |-> 51, val |-> 25, qual |-> 39] ) @@
  ( "069500" :> [mom |-> 42, val |-> 60, qual |-> 15] ) @@
  ( "305720" :> [mom |-> 57, val |-> 46, qual |-> 10] )

mock_factor_score(ticker, seed) == 40 + Md5Mod61[ticker][seed]

(***************************************************************************)
(* get_naver_finance_prices.  A response of the quote page is either a     *)
(* failure of the request or of the parse (status "raise"), or a page      *)
(* whose two price elements are each absent ("none"), present with text    *)
(* int() rejects ("bad"), or present with an integer ("int").              *)
(***************************************************************************)
NoElem == [k |-> "none", n |-> 0]
BadTxt == [k |-> "bad", n |-> 0]
Txt(p) == [k |-> "int", n |-> p]

RaiseResp == [status |-> "raise", cur |-> NoElem, tgt |-> NoElem]
Page(c, t) == [status |-> "ok", cur |-> c, tgt |-> t]

(* int(text.replace(',', '')) under try/except: pass, the price starts at 0 *)
ParsePrice(m) == IF m.k = "int" THEN m.n ELSE 0

Upside_NoTargetGuard(current_price, target_price) ==
  IF current_price > 0
    THEN (IF target_price >= current_price
            THEN RoundDiv(1000 * (target_price - current_price), current_price)
            ELSE 0 - RoundDiv(1000 * (current_price - target_price), current_price))
    ELSE 0

(* upside = ((target / current) - 1.0) * 100 when both guards hold, else   *)
(* 0.0; returned as round(upside, 1), here in tenths of a percent.         *)
Upside(current_price, target_price) ==
  IF current_price > 0 /\ target_price > current_price
    THEN RoundDiv(1000 * (target_price - current_price), current_price)
    ELSE 0

ZeroQuote == [price |-> 0, target |-> 0, upside |-> 0]

PricesFromPage(resp) ==
  LET current_price == ParsePrice(resp.cur)
      target_price  == ParsePrice(resp.tgt)
  IN  [price  |-> current_price,
       target |-> target_price,
       upside |-> Upside(current_price, target_price)]

get_naver_finance_prices_NoExcept(resp) ==
  IF resp.status = "raise"
    THEN [raised |-> TRUE, quote |-> ZeroQuote]
    ELSE [raised |-> FALSE, quote |-> PricesFromPage(resp)]

(* The whole body sits in try / except Exception: a call always returns. *)
get_naver_finance_prices(resp) ==
  IF resp.status = "raise"
    THEN [raised |-> FALSE, quote |-> ZeroQuote]
    ELSE [raised |-> FALSE, quote |-> PricesFromPage(resp)]

(***************************************************************************)
(* The upside bonus of score_and_recommend:                                *)
(*   round(min(15.0, (upside / 30.0) * 15.0) if upside > 0 else 0, 1).     *)
(* With upside = u tenths the exact value is u / 20, a multiple of 0.05:   *)
(* for odd u it is a tie of round(_, 1), and the double the code computes  *)
(* lies just above or just below it.  TieUp lists the odd u below 300 for  *)
(* which IEEE-754 evaluation of the expression lands on the upper tenth.   *)
(***************************************************************************)
TieUp ==
  {1, 9, 11, 13, 15, 21, 27, 31, 35, 37, 39, 47, 49, 55, 57, 59, 67, 69, 75,
   79, 83, 89, 93, 95, 99, 103, 109, 113, 115, 119, 123, 129, 133, 135, 139,
   143, 149, 153, 155, 159, 161, 163, 171, 173, 175, 181, 183, 191, 193, 195,
   201, 203, 211, 213, 215, 221, 223, 231, 233, 235, 241, 243, 251, 253, 255,
   261, 263, 271, 273, 275, 281, 283, 291, 293, 295}

(* round(x20 / 20, 1) in tenths, x20 the value in twentieths of a point *)
RoundTwentieths(x20) ==
  (x20 \div 2) + (IF x20 % 2 = 1 /\ x20 \in TieUp THEN 1 ELSE 0)

(* (upside / 30.0) * 15.0 in twentieths of a point, upside in tenths *)
LinearBonus20(upside) == (2 * upside * BonusMax) \div UpsideAtMax

upside_score_NoCap(upside) ==
  IF upside > 0 THEN RoundTwentieths(LinearBonus20(upside)) ELSE 0

upside_score(upside) ==
  IF upside > 0
    THEN RoundTwentieths(Min2(20 * BonusMax, LinearBonus20(upside)))
    ELSE 0

(***************************************************************************)
(* The listing collaborators.                                              *)
(***************************************************************************)
KospiRows  == {[Ticker |-> "000270", Name |-> "Kia", link |-> TRUE],
               [Ticker |-> "055550", Name |-> "ShinhanFG", link |-> TRUE]}
KosdaqRows == {[Ticker |-> "247540", Name |-> "EcoproBM", link |-> TRUE]}
(* a tr with at most two cells, or no anchor in its second cell *)
Spacer == [Ticker |-> "", Name |-> "", link |-> FALSE]

Instrument(tr) == [Ticker |-> tr.Ticker, Name |-> tr.Name]

SeqsUpTo(S, n) == UNION {[1..k -> S] : k \in 0..n}

(* One market-sum page: the request or the walk of the markup raises       *)
(* ("error"), the page has no table.type_2 ("notable"), or it has rows.    *)
PageResponses(market) ==
  LET pool == (IF market = "KOSPI" THEN KospiRows ELSE KosdaqRows) \cup {Spacer}
  IN  {[status |-> "error", rows |-> <<>>], [status |-> "notable", rows |-> <<>>]}
        \cup {[status |-> "ok", rows |-> r] : r \in SeqsUpTo(pool, MaxRowsPerPage)}

(* the for loop over the trs of one page, lines 170-183 *)
RECURSIVE AppendRows(_, _, _)
AppendRows(data0, trs, limit) ==
  IF trs = <<>> THEN data0
  ELSE IF Head(trs).link
    THEN LET data1 == Append(data0, Instrument(Head(trs)))
         IN  IF Len(data1) >= limit THEN data1
             ELSE AppendRows(data1, Tail(trs), limit)
    ELSE AppendRows(data0, Tail(trs), limit)

(* the ETF item list: an item without its 'itemcode' raises KeyError *)
EtfItems ==
  {[itemcode |-> "069500", itemname |-> "KODEX200", marketSum |-> 3, hasCode |-> TRUE],
   [itemcode |-> "", itemname |-> "Unlisted", marketSum |-> 2, hasCode |-> FALSE],
   [itemcode |-> "305720", itemname |-> "KODEX2ndBattery", marketSum |-> 1, hasCode |-> TRUE]}

EtfResponses ==
  {[status |-> "raise", items |-> <<>>]}
    \cup {[status |-> "ok", items |-> s] : s \in SeqsUpTo(EtfItems, MaxEtfItems)}

(* sorted(etf_list, key=marketSum, reverse=True): Python's sort is stable *)
RECURSIVE InsertByMarketSum(_, _)
InsertByMarketSum(sorted, x) ==
  IF sorted = <<>> THEN <<x>>
  ELSE IF Head(sorted).marketSum >= x.marketSum
    THEN <<Head(sorted)>> \o InsertByMarketSum(Tail(sorted), x)
    ELSE <<x>> \o sorted

RECURSIVE SortedByMarketSum(_)
SortedByMarketSum(items) ==
  IF items = <<>> THEN <<>>
  ELSE InsertByMarketSum(SortedByMarketSum(SubSeq(items, 1, Len(items) - 1)),
                         items[Len(items)])

(* the enumerate loop, lines 199-205; the except of line 206 keeps data *)
RECURSIVE CollectEtf(_, _, _)
CollectEtf(data0, etf_list, limit) ==
  IF etf_list = <<>> \/ Len(data0) >= limit THEN [data |-> data0, raised |-> FALSE]
  ELSE IF ~Head(etf_list).hasCode THEN [data |-> data0, raised |-> TRUE]
  ELSE CollectEtf(Append(data0, [Ticker |-> Head(etf_list).itemcode,
                                 Name |-> Head(etf_list).itemname]),
                  Tail(etf_list), limit)

get_naver_etf_top_cap(resp, limit) ==
  IF resp.status = "raise"
    THEN [data |-> <<>>, raised |-> TRUE]
    ELSE CollectEtf(<<>>, SortedByMarketSum(resp.items), limit)

ConcatHead_NoHead(df1_, df2_, limit) == df1_ \o df2_

(* pd.concat([df1, df2]).head(limit).reset_index(drop=True) *)
ConcatHead(df1_, df2_, limit) == Take(df1_ \o df2_, limit)

(***************************************************************************)
(* The weight payload and its extraction, lines 304-314.                   *)
(***************************************************************************)
Absent == [t |-> "absent", n |-> 0]
NonNum == [t |-> "other", n |-> 0]
Num(x) == [t |-> "num", n |-> x]

(* the example object of SYSTEM_PROMPT, in tenths of a percent *)
PromptExample == [k \in Keys |->
  IF k = "Momentum" THEN 300 ELSE IF k = "Value" THEN 200 ELSE 500]

EmptyObj == [k \in Keys |-> Absent]
Objects == [Keys -> {Absent, NonNum}] \cup
  {o \in [Keys -> {Absent, NonNum} \cup {Num(PromptExample[k]) : k \in Keys}] :
     \A k \in Keys : o[k].t = "num" => o[k].n = PromptExample[k]}

(* what the fenced block of the response text holds *)
Payloads ==
  {[kind |-> x, obj |-> EmptyObj] : x \in {"nofence", "unparsable", "null", "array"}}
    \cup {[kind |-> "object", obj |-> o] : o \in Objects}

(* configure, generate_content or response.text raises *)
CollaboratorRaises == [kind |-> "raise", obj |-> EmptyObj]

DefaultObj == [k \in Keys |->
  IF k = "Momentum" THEN Num(333) ELSE IF k = "Value" THEN Num(333) ELSE Num(334)]
DefaultWeights == [kind |-> "object", obj |-> DefaultObj]

(* weights is bound to the result of json.loads before st.info reads it *)
ExtractWeights(p) ==
  IF p.kind = "nofence"
    THEN [weights |-> DefaultWeights, shown |-> "format_warning"]
  ELSE IF p.kind = "unparsable"
    THEN [weights |-> DefaultWeights, shown |-> "parse_warning"]
  ELSE IF p.kind = "object"
    THEN [weights |-> p, shown |-> "weights_info"]
  ELSE [weights |-> p, shown |-> "parse_warning"]

(* weights.get(key, default) / 100.0, lines 227-229; n is left in tenths *)
FactorWeight(weights_, key, default) ==
  IF weights_.kind # "object" THEN [raised |-> TRUE, n |-> 0]
  ELSE IF weights_.obj[key].t = "absent" THEN [raised |-> FALSE, n |-> default]
  ELSE IF weights_.obj[key].t = "num" THEN [raised |-> FALSE, n |-> weights_.obj[key].n]
  ELSE [raised |-> TRUE, n |-> 0]

FactorWeights(weights_) ==
  LET m == FactorWeight(weights_, "Momentum", 333)
      v == FactorWeight(weights_, "Value", 333)
      q == FactorWeight(weights_, "Quality", 334)
  IN  [raised |-> m.raised \/ v.raised \/ q.raised, m |-> m.n, v |-> v.n, q |-> q.n]

(***************************************************************************)
(* The scoring of one row and the ranking, lines 248-279.                  *)
(***************************************************************************)
(* the placeholder "-" replaces a price that is not positive *)
Shown(price) == IF price > 0 THEN [dash |-> FALSE, n |-> price]
                ELSE [dash |-> TRUE, n |-> 0]

ScoredRow(inst, prices, fw) ==
  LET mom  == mock_factor_score(inst.Ticker, "mom")
      val  == mock_factor_score(inst.Ticker, "val")
      qual == mock_factor_score(inst.Ticker, "qual")
      upside == prices.upside
      bonus  == upside_score(upside)
      ai_score == RoundDiv(mom * fw.m + val * fw.v + qual * fw.q, 100)
  IN  [Ticker |-> inst.Ticker, Name |-> inst.Name,
       price |-> Shown(prices.price), target |-> Shown(prices.target),
       upside |-> upside, upside_score |-> bonus,
       ai_score |-> ai_score, final_score |-> ai_score + bonus]

Injective(f, n) == \A i, j \in 1..n : i # j => f[i] # f[j]

SortedIndexers_Ascending(rows) ==
  {ix \in [1..Len(rows) -> 1..Len(rows)] :
     /\ Injective(ix, Len(rows))
     /\ \A i \in 1..(Len(rows) - 1) :
          rows[ix[i]].final_score <= rows[ix[i + 1]].final_score}

(* sort_values(by=final score, ascending=False) with the default           *)
(* kind='quicksort', which orders equal keys in no promised way: every     *)
(* permutation that puts the scores in non-increasing order is an outcome. *)
(* (numpy's introsort starts to partition, and to reorder equal keys, once *)
(* a frame has more than 17 rows; the limits 10..100 of the program reach  *)
(* that, and the short frames of the model stand for such frames.)         *)
SortedIndexers(rows) ==
  {ix \in [1..Len(rows) -> 1..Len(rows)] :
     /\ Injective(ix, Len(rows))
     /\ \A i \in 1..(Len(rows) - 1) :
          rows[ix[i]].final_score >= rows[ix[i + 1]].final_score}

RankIndex_ZeroBased(pos) == pos - 1

(* reset_index(drop=True) numbers the rows from 0; df.index = df.index + 1 *)
RankIndex(pos) == (pos - 1) + 1

KeyMissing_Never(key) == FALSE

(* if not current_key *)
KeyMissing(key) == key = ""

(***************************************************************************)
(* State.                                                                  *)
(***************************************************************************)
VARIABLES
  pc,             \* where the handler stands
  failure,        \* what ended the run early, "none" while it has not
  shown,          \* the messages put on the page
  called,         \* the functions of the pipeline entered so far
  current_key,    \* api_key_input or the saved GEMINI_API_KEY
  target_market, target_limit,
  payload,        \* the fenced block of response_text
  weights,        \* the handler's weights
  leg, page, listing,  \* get_naver_top_cap: market, page, data
  df1,            \* fetch_universe: the first frame of the ALL segment
  universe,       \* what fetch_universe returned
  factor_w,       \* w_m, w_v, w_q (times 1000)
  data,           \* score_and_recommend: the rows appended so far
  quoteCache,     \* st.cache_data of get_naver_finance_prices
  fetchLog,       \* per quote lookup of the loop: how it ended
  indexer,        \* the permutation sort_values applied
  recommended_df, \* the returned frame: <<index label, row>>
  probe           \* a single call of a pure function (SpecUnit)

vars == <<pc, failure, shown, called, current_key, target_market, target_limit,
          payload, weights, leg, page, listing, df1, universe, factor_w, data,
          quoteCache, fetchLog, indexer, recommended_df, probe>>

NoProbe == [fn |-> "none", resp |-> RaiseResp, u |-> 0, done |-> FALSE,
            raised |-> FALSE, quote |-> ZeroQuote, bonus |-> 0]
NoCache == [t \in Tickers |-> [hit |-> FALSE, quote |-> ZeroQuote]]
Unset == [kind |-> "unset", obj |-> EmptyObj]

(* the page as first rendered: nothing pressed yet *)
Init ==
  /\ pc = "idle" /\ failure = "none" /\ shown = {} /\ called = {}
  /\ current_key = "" /\ target_market = "ALL" /\ target_limit = MinLimit
  /\ payload = Unset /\ weights = Unset
  /\ leg = "KOSPI" /\ page = 1 /\ listing = <<>> /\ df1 = <<>>
  /\ universe = <<>> /\ factor_w = [raised |-> FALSE, m |-> 0, v |-> 0, q |-> 0]
  /\ data = <<>> /\ quoteCache = NoCache /\ fetchLog = <<>>
  /\ indexer = <<>> /\ recommended_df = <<>>
  /\ probe = NoProbe

(* the outer except of line 322 *)
Fail(cause) ==
  /\ pc' = "failed" /\ failure' = cause /\ shown' = shown \cup {"run_error"}

(* lines 281-286: the button, the key check *)
StartButton(api_key_input, saved_key, market, limit) ==
  /\ pc = "idle"
  /\ current_key' = (IF api_key_input # "" THEN api_key_input ELSE saved_key)
  /\ target_market' = market /\ target_limit' = limit
  /\ IF KeyMissing(current_key')
       THEN pc' = "failed" /\ failure' = "missing_key" /\ shown' = shown \cup {"key_error"}
       ELSE pc' = "generate" /\ UNCHANGED <<failure, shown>>
  /\ UNCHANGED <<called, payload, weights, leg, page, listing, df1, universe,
                 factor_w, data, quoteCache, fetchLog, indexer, recommended_df, probe>>

(* lines 288-294: configure, generate_content, response.text *)
Generate(outcome) ==
  /\ pc = "generate"
  /\ IF outcome.kind = "raise"
       THEN Fail("collaborator") /\ UNCHANGED payload
       ELSE pc' = "resolve" /\ payload' = outcome /\ UNCHANGED <<failure, shown>>
  /\ UNCHANGED <<called, current_key, target_market, target_limit, weights, leg,
                 page, listing, df1, universe, factor_w, data, quoteCache,
                 fetchLog, indexer, recommended_df, probe>>

(* lines 304-317 and 225: the extraction, then score_and_recommend is      *)
(* entered and calls fetch_universe first                                  *)
Resolve ==
  /\ pc = "resolve"
  /\ weights' = ExtractWeights(payload).weights
  /\ shown' = shown \cup {ExtractWeights(payload).shown}
  /\ called' = called \cup {"score_and_recommend", "fetch_universe"}
  /\ leg' = (IF target_market = "KOSDAQ" THEN "KOSDAQ" ELSE "KOSPI")
  /\ page' = 1 /\ listing' = <<>>
  /\ pc' = "fetch"
  /\ UNCHANGED <<failure, current_key, target_market, target_limit, payload, df1,
                 universe, factor_w, data, quoteCache, fetchLog, indexer,
                 recommended_df, probe>>

(* fetch_universe, market == "ETF": one call of get_naver_etf_top_cap,     *)
(* whose except clause reports the failure and returns what it has         *)
FetchEtf(resp) ==
  /\ pc = "fetch" /\ target_market = "ETF"
  /\ LET r == get_naver_etf_top_cap(resp, target_limit)
     IN  /\ universe' = r.data
         /\ shown' = (IF r.raised THEN shown \cup {"etf_error"} ELSE shown)
  /\ called' = called \cup {"get_naver_etf_top_cap"}
  /\ pc' = "weights"
  /\ UNCHANGED <<failure, current_key, target_market, target_limit, payload,
                 weights, leg, page, listing, df1, factor_w, data, quoteCache,
                 fetchLog, indexer, recommended_df, probe>>

(* get_naver_top_cap returns result to fetch_universe, lines 214-221 *)
ReturnListing(result) ==
  IF target_market = "ALL" /\ leg = "KOSPI"
    THEN /\ df1' = result /\ leg' = "KOSDAQ" /\ page' = 1 /\ listing' = <<>>
         /\ UNCHANGED <<pc, universe>>
  ELSE IF target_market = "ALL"
    THEN /\ universe' = ConcatHead(df1, result, target_limit)
         /\ listing' = result /\ pc' = "weights"
         /\ UNCHANGED <<df1, leg, page>>
  ELSE /\ universe' = result /\ listing' = result /\ pc' = "weights"
       /\ UNCHANGED <<df1, leg, page>>

(* one turn of the while loop of get_naver_top_cap, lines 159-184; nothing *)
(* in it is caught, so a failing request or markup walk leaves through     *)
(* fetch_universe and score_and_recommend to the handler's except          *)
FetchPage(resp) ==
  /\ pc = "fetch" /\ target_market # "ETF"
  /\ Len(listing) < target_limit /\ page <= MaxPage
  /\ called' = called \cup {"get_naver_top_cap"}
  /\ IF resp.status = "error"
       THEN Fail("listing") /\ UNCHANGED <<leg, page, listing, df1, universe>>
     ELSE IF resp.status = "notable"
       THEN ReturnListing(listing) /\ UNCHANGED <<failure, shown>>
     ELSE LET data1 == AppendRows(listing, resp.rows, target_limit)
          IN  /\ UNCHANGED <<failure, shown>>
              /\ IF Len(data1) < target_limit /\ page + 1 <= MaxPage
                   THEN /\ listing' = data1 /\ page' = page + 1
                        /\ UNCHANGED <<pc, leg, df1, universe>>
                   ELSE ReturnListing(data1)
  /\ UNCHANGED <<current_key, target_market, target_limit, payload, weights,
                 factor_w, data, quoteCache, fetchLog, indexer, recommended_df,
                 probe>>

(* lines 227-235: the three weights.get(...) / 100.0 *)
ComputeWeights ==
  /\ pc = "weights"
  /\ LET fw == FactorWeights(weights)
     IN  IF fw.raised
           THEN Fail("weights") /\ UNCHANGED factor_w
           ELSE pc' = "loop" /\ factor_w' = fw /\ UNCHANGED <<failure, shown>>
  /\ UNCHANGED <<called, current_key, target_market, target_limit, payload,
                 weights, leg, page, listing, df1, universe, data, quoteCache,
                 fetchLog, indexer, recommended_df, probe>>

(* one turn of the for loop, lines 237-271 *)
ScoreRow(resp) ==
  /\ pc = "loop" /\ Len(data) < Len(universe)
  /\ called' = called \cup {"get_naver_finance_prices"}
  /\ LET inst == universe[Len(data) + 1]
         hit  == quoteCache[inst.Ticker].hit
         r    == IF hit THEN [raised |-> FALSE, quote |-> quoteCache[inst.Ticker].quote]
                 ELSE get_naver_finance_prices(resp)
     IN  /\ fetchLog' = Append(fetchLog,
                            IF hit THEN "cached"
                            ELSE IF resp.status = "raise" THEN "failed" ELSE "fetched")
         /\ IF r.raised
              THEN Fail("quote") /\ UNCHANGED <<data, quoteCache>>
              ELSE /\ data' = Append(data, ScoredRow(inst, r.quote, factor_w))
                   /\ quoteCache' = [quoteCache EXCEPT ![inst.Ticker] =
                                       [hit |-> TRUE, quote |-> r.quote]]
                   /\ UNCHANGED <<pc, failure, shown>>
  /\ UNCHANGED <<current_key, target_market, target_limit, payload, weights, leg,
                 page, listing, df1, universe, factor_w, indexer, recommended_df,
                 probe>>

(* lines 276-279 and 318-320: the frame of an empty list has no columns,   *)
(* so sort_values(by=...) raises KeyError; otherwise sort, renumber, show  *)
SortAndRank ==
  /\ pc = "loop" /\ Len(data) = Len(universe)
  /\ called' = called \cup {"sort_values"}
  /\ IF data = <<>>
       THEN Fail("sort_values") /\ UNCHANGED <<indexer, recommended_df>>
       ELSE /\ \E ix \in SortedIndexers(data) :
                 /\ indexer' = ix
                 /\ recommended_df' =
                      [i \in 1..Len(data) |-> [rank |-> RankIndex(i), row |-> data[ix[i]]]]
            /\ pc' = "done" /\ shown' = shown \cup {"success"}
            /\ UNCHANGED failure
  /\ UNCHANGED <<current_key, target_market, target_limit, payload, weights, leg,
                 page, listing, df1, universe, factor_w, data, quoteCache,
                 fetchLog, probe>>

ApiKeys == {"", "key"}

(* the quote pages the runs of Spec draw from *)
QuoteResponses ==
  {RaiseResp, Page(Txt(50000), NoElem), Page(Txt(50000), Txt(65000))}

Next ==
  \/ \E a \in ApiKeys, k \in ApiKeys, m \in Markets, l \in Limits : StartButton(a, k, m, l)
  \/ \E o \in {CollaboratorRaises} \cup Payloads : Generate(o)
  \/ Resolve
  \/ \E r \in EtfResponses : FetchEtf(r)
  \/ \E r \in PageResponses(leg) : FetchPage(r)
  \/ ComputeWeights
  \/ \E r \in QuoteResponses : ScoreRow(r)
  \/ SortAndRank

Spec == Init /\ [][Next]_vars

(***************************************************************************)
(* SpecUnit: one call of get_naver_finance_prices, or one evaluation of    *)
(* the upside bonus, on an input drawn from a wider set than the runs of   *)
(* Spec meet.                                                              *)
(***************************************************************************)
UnitPrices == {0, 1, 40000, 50000, 57500, 65000, 100000, 100001}
PriceTexts == {NoElem, BadTxt} \cup {Txt(x) : x \in UnitPrices}
UnitQuoteResponses == {RaiseResp} \cup {Page(c, t) : c \in PriceTexts, t \in PriceTexts}
UpsideInputs == (0 - UpsideSpan)..(10 * UpsideAtMax + UpsideSpan)

UnitInit ==
  /\ pc = "unit" /\ failure = "none" /\ shown = {} /\ called = {}
  /\ current_key = "" /\ target_market = "ALL" /\ target_limit = MinLimit
  /\ payload = Unset /\ weights = Unset
  /\ leg = "KOSPI" /\ page = 1 /\ listing = <<>> /\ df1 = <<>>
  /\ universe = <<>> /\ factor_w = [raised |-> FALSE, m |-> 0, v |-> 0, q |-> 0]
  /\ data = <<>> /\ quoteCache = NoCache /\ fetchLog = <<>>
  /\ indexer = <<>> /\ recommended_df = <<>>
  /\ \/ \E r \in UnitQuoteResponses : probe = [NoProbe EXCEPT !.fn = "quote", !.resp = r]
     \/ \E u \in UpsideInputs : probe = [NoProbe EXCEPT !.fn = "bonus", !.u = u]

ApplyQuote ==
  /\ pc = "unit" /\ probe.fn = "quote" /\ ~probe.done
  /\ probe' = [probe EXCEPT !.done = TRUE,
                            !.raised = get_naver_finance_prices(probe.resp).raised,
                            !.quote = get_naver_finance_prices(probe.resp).quote]
  /\ UNCHANGED <<pc, failure, shown, called, current_key, target_market,
                 target_limit, payload, weights, leg, page, listing, df1, universe,
                 factor_w, data, quoteCache, fetchLog, indexer, recommended_df>>

ApplyBonus ==
  /\ pc = "unit" /\ probe.fn = "bonus" /\ ~probe.done
  /\ probe' = [probe EXCEPT !.done = TRUE, !.bonus = upside_score(probe.u)]
  /\ UNCHANGED <<pc, failure, shown, called, current_key, target_market,
                 target_limit, payload, weights, leg, page, listing, df1, universe,
                 factor_w, data, quoteCache, fetchLog, indexer, recommended_df>>

UnitNext == ApplyQuote \/ ApplyBonus

SpecUnit == UnitInit /\ [][UnitNext]_vars

(***************************************************************************)
(* Properties.                                                             *)
(***************************************************************************)
Abs(x) == IF x >= 0 THEN x ELSE 0 - x
DefaultTriple == [raised |-> FALSE, m |-> 333, v |-> 333, q |-> 334]

(* the payloads C1 calls malformed *)
Malformed(p) ==
  \/ p.kind \in {"nofence", "unparsable", "null"}
  \/ p.kind = "object" /\ \E k \in Keys : p.obj[k].t # "num"

(* C1: for every malformed weight payload (no fenced block, unparsable     *)
(* JSON, an object missing a key, a non-numeric value, JSON null) nothing  *)
(* is raised over the weights and the weights score_and_recommend uses are *)
(* exactly 33.3 / 33.3 / 33.4.                                             *)
C1_MalformedPayloadUsesDefault ==
  Malformed(payload) =>
    /\ failure # "weights"
    /\ pc \in {"loop", "done"} => factor_w = DefaultTriple

(* C2: with an empty universe score_and_recommend returns an empty table   *)
(* and raises nothing.                                                     *)
C2_EmptyUniverseEmptyTable ==
  (universe = <<>> /\ "sort_values" \in called) =>
    (pc = "done" /\ failure = "none" /\ recommended_df = <<>>)

(* C3: for every segment a failure of a listing collaborator never leaves  *)
(* fetch_universe: the run is never ended by one.                          *)
C3_ListingFailureNeverPropagates ==
  failure # "listing"

(* C4: the returned table is ordered by final score, non-increasing, and   *)
(* its index is exactly 1..N in that order, N the number of rows.          *)
C4_SortedAndRanked ==
  pc = "done" =>
    /\ Len(recommended_df) = Len(data)
    /\ \A i \in 1..Len(recommended_df) : recommended_df[i].rank = i
    /\ \A i \in 1..(Len(recommended_df) - 1) :
         recommended_df[i].row.final_score >= recommended_df[i + 1].row.final_score

C4_Witness ==
  /\ pc = "done" /\ Len(recommended_df) >= 3
  /\ data[1].final_score < data[2].final_score
  /\ recommended_df[1].row.final_score > recommended_df[3].row.final_score

(* C5: fetch_universe returns at most limit instruments for every segment; *)
(* for ALL the concatenation of the two lists is cut to limit.             *)
C5_AtMostLimit ==
  /\ Len(universe) <= target_limit
  /\ Len(listing) <= target_limit
  /\ Len(df1) <= target_limit

C5_Witness ==
  /\ target_market = "ALL" /\ pc = "weights"
  /\ Len(df1) + Len(listing) > target_limit
  /\ Len(universe) = target_limit

(* C6: a quote fetch that fails returns the zero quote and does not end    *)
(* the run; the returned table has exactly one row per instrument of the   *)
(* universe.                                                               *)
C6_QuoteFailureIsLocal ==
  (\E i \in 1..Len(fetchLog) : fetchLog[i] = "failed") =>
    /\ failure = "none" /\ pc # "failed"
    /\ Len(data) = Len(fetchLog)
    /\ \A i \in 1..Len(fetchLog) :
         fetchLog[i] = "failed" =>
           /\ data[i].upside = 0 /\ data[i].upside_score = 0
           /\ data[i].price.dash /\ data[i].target.dash
    /\ pc = "done" =>
         /\ Len(recommended_df) = Len(universe)
         /\ \A k \in 1..Len(universe) :
              Cardinality({i \in 1..Len(indexer) : indexer[i] = k}) = 1
         /\ \A i \in 1..Len(recommended_df) :
              /\ recommended_df[i].row.Ticker = universe[indexer[i]].Ticker
              /\ recommended_df[i].row.Name = universe[indexer[i]].Name

C6_Witness ==
  /\ pc = "done" /\ Len(universe) >= 2
  /\ fetchLog[1] = "failed" /\ fetchLog[2] = "fetched"
  /\ universe[1].Ticker # universe[2].Ticker

(* C7: a returned quote has a positive upside only when the current price  *)
(* is positive and the target exceeds it, and an upside of exactly 0       *)
(* otherwise; a positive upside is ((target / current) - 1) * 100 rounded  *)
(* to one decimal; 50000 and 65000 give 30.0.                              *)
C7_UpsideOnlyWhenTargetAbove ==
  (probe.fn = "quote" /\ probe.done) =>
    LET q == probe.quote
    IN  /\ ~probe.raised
        /\ q.upside > 0 => (q.price > 0 /\ q.target > q.price)
        /\ ~(q.price > 0 /\ q.target > q.price) => q.upside = 0
        /\ q.upside > 0 =>
             Abs(2000 * (q.target - q.price) - 2 * q.upside * q.price) <= q.price
        /\ (q.price = 50000 /\ q.target = 65000) => q.upside = 300

C7_Witness ==
  /\ probe.fn = "quote" /\ probe.done
  /\ probe.quote.price = 50000 /\ probe.quote.target = 65000
  /\ probe.quote.upside = 300

(* C8: with no API key, or when the weight-producing collaborator fails,   *)
(* the run ends with an error on the page and score_and_recommend is never *)
(* called: no universe fetch, no quote fetch, no scoring.                  *)
C8_NoScoringWithoutWeights ==
  ((pc # "idle" /\ pc # "unit" /\ current_key = "") \/ failure = "collaborator"
     \/ failure = "missing_key") =>
    /\ pc = "failed"
    /\ called = {} /\ universe = <<>> /\ data = <<>> /\ recommended_df = <<>>
    /\ ("key_error" \in shown \/ "run_error" \in shown)
    /\ "success" \notin shown

C8_Witness ==
  /\ pc = "failed" /\ failure = "collaborator" /\ current_key = "key"
  /\ "run_error" \in shown

(* C9: the upside bonus is 0 for an upside <= 0, (upside / 30) * 15 rounded *)
(* to one decimal for 0 < upside < 30, exactly 15.0 from 30 on; it lies in *)
(* [0, 15]; 30.0 gives 15.0 and 15.0 gives 7.5.                            *)
C9_BonusLinearThenSaturated ==
  (probe.fn = "bonus" /\ probe.done) =>
    /\ probe.u <= 0 => probe.bonus = 0
    /\ (0 < probe.u /\ probe.u < 300) => Abs(2 * probe.bonus - probe.u) <= 1
    /\ probe.u >= 300 => probe.bonus = 150
    /\ 0 <= probe.bonus /\ probe.bonus <= 150
    /\ probe.u = 150 => probe.bonus = 75

C9_Witness ==
  /\ probe.fn = "bonus" /\ probe.done
  /\ probe.u > 300 /\ probe.bonus = 150

(* the rows in descending score, equal scores in their order of arrival *)
RECURSIVE InsertStable(_, _)
InsertStable(sorted, x) ==
  IF sorted = <<>> THEN <<x>>
  ELSE IF Head(sorted).final_score >= x.final_score
    THEN <<Head(sorted)>> \o InsertStable(Tail(sorted), x)
    ELSE <<x>> \o sorted

RECURSIVE StableDescending(_)
StableDescending(rows) ==
  IF rows = <<>> THEN <<>>
  ELSE InsertStable(StableDescending(SubSeq(rows, 1, Len(rows) - 1)), rows[Len(rows)])

(* C10: instruments with an identical final score stay in the order in     *)
(* which the universe listed them: the earlier one gets the smaller rank.  *)
C10_TiesKeepUniverseOrder ==
  pc = "done" =>
    \A i \in 1..Len(recommended_df) :
      recommended_df[i].row = StableDescending(data)[i]
====
